---- MODULE Spec2Model ----
(***************************************************************************)
(* Payment reconciliation core of tg_dgn_bot: unique-amount orders, the    *)
(* suffix pool, the order status machine, the TRC20 payment callback and   *)
(* the expiry sweep.  Every Redis round trip (every await) of              *)
(* src/src/payment_processor.py is one step of a task, so that concurrent  *)
(* handlers interleave exactly where the code can be interleaved.          *)
(* The backend services and worker tasks of src/backend/api work on the    *)
(* deposit_orders and users tables; every query and every commit of a      *)
(* session is one step of a job.                                           *)
(***************************************************************************)
EXTENDS Integers, Sequences, FiniteSets, TLC

\* ---------------------------------------------------------------- bounds
MaxOrders == 2
PoolSize == 1
NumTasks == 2

OrderIds == 1..MaxOrders
Suffixes == 1..PoolSize
Tasks == 1..NumTasks
\* base amounts (USDT) offered to create_order, and the users calling it
Bases == {1, 10}
Users == {1, 2}
\* transaction hashes a callback can carry
Txs == {1, 2}
\* the hash carried where one transaction per order is reported
SomeTx == CHOOSE tx \in Txs : TRUE

VARIABLES
    orders,      \* Redis "order:<id>" records
    amountIdx,   \* Redis "amount:<micro>" -> order id (0: no key)
    slots,       \* suffix pool: the binding of every slot
    heldFor,     \* the order a slot's lease was taken for (0: none yet)
    expired,     \* expired[o]: datetime.now() > expires_at of order o
    paidTx,      \* the tx_hash of the callback whose write made order o PAID
    nextId,      \* the next fresh order id (uuid4)
    sessions,    \* open premium conversations: <<order_id, unique_suffix>>
    task,        \* the local state of every concurrent handler
    ret,         \* what the step just taken returned to its caller
    quote,       \* the two payment amounts quoted last
    outcome,     \* SpecAlloc: what each caller's one create_order returned
    dbOrders,    \* backend: the deposit_orders table (status, user, base amount)
    dbUsers,     \* backend: users.balance_micro_usdt (-1: no row)
    gifts,       \* the successful gift calls made for every backend order
    credited,    \* the balance credits committed on behalf of every backend order
    job,         \* the local state of every backend request or worker job
    reply,       \* what the backend step just taken answered
    signed,      \* the callback signature issued last, and its last verification
    trxOrders,   \* the trx_exchange_orders table
    trxRun       \* the TRX-exchange payment callback: where it stands, what it logged last

store == <<orders, amountIdx, slots>>
core == <<orders, amountIdx, slots, heldFor, expired, paidTx, nextId, sessions, task,
          ret, quote, outcome>>
backend == <<dbOrders, dbUsers, gifts, credited, job, reply>>
side == <<signed, trxOrders, trxRun>>
vars == <<orders, amountIdx, slots, heldFor, expired, paidTx, nextId, sessions, task,
          ret, quote, outcome, dbOrders, dbUsers, gifts, credited, job, reply,
          signed, trxOrders, trxRun>>

\* ---------------------------------------------------------------- amounts
\* The IEEE-754 doubles b + s/1000.0 whose product with 1000000 lies below
\* the exact integer (1.0 + 0.001)*1000000 = 1000999.9999999999, ...
BelowExact ==
    {<<1, 1>>, <<1, 3>>, <<1, 5>>, <<1, 7>>, <<1, 9>>, <<2, 2>>, <<2, 10>>, <<2, 42>>}

\* a total that keeps two decimals of the suffix only
calculate_total_amount_two_decimals(b, s) ==
    [k |-> b * 1000000 + (s \div 10) * 10000,
     err |-> IF <<b, s>> \in BelowExact THEN -1 ELSE 0]

\* total_amount * 1000000 as a double: the nearest integer and the sign of
\* the representation error
calculate_total_amount(b, s) ==
    [k |-> b * 1000000 + s * 1000,
     err |-> IF <<b, s>> \in BelowExact THEN -1 ELSE 0]

\* int(x): truncation toward zero
amount_in_micro_usdt(total) == IF total.err < 0 THEN total.k - 1 ELSE total.k

\* int(round(x))
round_micro(total) == total.k

amounts_match(a1, a2) == round_micro(a1) = round_micro(a2)

\* the "amount:<micro>" keys that are written or looked up: every total, and
\* the micro-unit below it
AmountKeys ==
    {round_micro(calculate_total_amount(b, s)) : b \in Bases, s \in Suffixes}
        \cup {round_micro(calculate_total_amount(b, s)) - 1 : b \in Bases, s \in Suffixes}

\* ---------------------------------------------------------------- orders
Terminal == {"PAID", "EXPIRED", "CANCELLED"}

NoOrder == [status |-> "NONE", base |-> 0, suffix |-> 0]

Order(b, s) == [status |-> "PENDING", base |-> b, suffix |-> s]

TotalOf(rec) == calculate_total_amount(rec.base, rec.suffix)

_is_valid_status_transition(current, new) ==
    current = "PENDING" /\ new \in {"PAID", "EXPIRED", "CANCELLED"}

\* the pipeline of _save_order: the record and the reverse index, together
SavedOrders(id, rec) == [orders EXCEPT ![id] = rec]

SavedIndex(id, rec) ==
    [amountIdx EXCEPT ![amount_in_micro_usdt(TotalOf(rec))] = id]

\* find_order_by_amount: the id under the rounded key, then its record
find_order_by_amount(amount) ==
    LET id == amountIdx[round_micro(amount)]
    IN IF id = 0 \/ orders[id].status = "NONE" THEN 0 ELSE id

\* ---------------------------------------------------------------- suffix pool
Free == <<"free", 0>>
TempId(u) == <<"temp", u>>
OrderBinding(id) == <<"order", id>>
\* the binding written by allocate_suffix() called without an order id
NoOwner == <<"none", 0>>

FreeSlots == {s \in Suffixes : slots[s] = Free}

\* SET key owner NX
Reserved(s, owner) == [slots EXCEPT ![s] = owner]

\* delete the key only if it is bound to owner
Released(s, owner) == IF slots[s] = owner THEN [slots EXCEPT ![s] = Free] ELSE slots

\* ---------------------------------------------------------------- tasks
IdleTask ==
    [pc |-> "idle", op |-> "none", user |-> 0, base |-> 0, suffix |-> 0,
     order |-> 0, target |-> "NONE", cbOrder |-> 0, tx |-> 0, sigOk |-> TRUE,
     pre |-> "none", hit |-> "none", todo |-> {}, count |-> 0]

NoRet ==
    [op |-> "none", result |-> "none", sigOk |-> TRUE, pre |-> "none", hit |-> "none",
     count |-> 0]

Ret(op, result) == [NoRet EXCEPT !.op = op, !.result = result]

NoOutcome == [state |-> "off", suffix |-> 0]

NoQuote == [path |-> "none", base |-> 0, suffix |-> 0, total |-> [k |-> 0, err |-> 0]]

NoQuotes == [prev |-> NoQuote, last |-> NoQuote]

\* ---------------------------------------------------------------- backend store
\* rows of deposit_orders, and the requests and worker jobs that run at once
BackendOrders == 1..MaxOrders
Jobs == 1..NumTasks
\* users of the wallet, and the USDT amounts of orders, credits and debits
Holders == {1}
WalletAmounts == {2, 3}
\* the highest balance (USDT) up to which credits are followed
MaxBalance == 5

\* int(amount * 1_000_000)
Micro(a) == a * 1000000

NoRow == [status |-> "NONE", user |-> 0, base |-> 0]
NoUser == -1

IdleJob ==
    [pc |-> "idle", op |-> "none", order |-> 0, seen |-> "NONE", target |-> "NONE",
     user |-> 0, amount |-> 0, balance |-> 0, gifted |-> FALSE]

NoReply ==
    [op |-> "none", order |-> 0, result |-> "none", seen |-> "NONE", sigOk |-> TRUE,
     code |-> 0]

Reply(op, o, result, seen) ==
    [NoReply EXCEPT !.op = op, !.order = o, !.result = result, !.seen = seen]

InitBackend ==
    /\ dbOrders = [o \in BackendOrders |-> NoRow]
    /\ dbUsers = [u \in Holders |-> NoUser]
    /\ gifts = [o \in BackendOrders |-> 0]
    /\ credited = [o \in BackendOrders |-> 0]
    /\ job = [j \in Jobs |-> IdleJob]
    /\ reply = NoReply

\* ---------------------------------------------------------------- callback signature and TRX exchange store
\* no signature was issued and none was verified
NoSigned ==
    [order |-> <<>>, amount |-> 0, tx |-> <<>>, signature |-> <<>>,
     claimOrder |-> <<>>, claimAmount |-> 0, claimTx |-> <<>>, checked |-> FALSE,
     valid |-> FALSE]

TrxIds == 1..MaxOrders

NoTrxOrder == [status |-> "NONE", base |-> 0, usdt_amount |-> 0, sends |-> 0, tx_hash |-> 0]

NoTrxRun == [pc |-> "idle", order |-> 0, log |-> "none"]

InitSide ==
    /\ signed = NoSigned
    /\ trxOrders = [o \in TrxIds |-> NoTrxOrder]
    /\ trxRun = NoTrxRun

Init ==
    /\ orders = [o \in OrderIds |-> NoOrder]
    /\ amountIdx = [k \in AmountKeys |-> 0]
    /\ slots = [s \in Suffixes |-> Free]
    /\ heldFor = [s \in Suffixes |-> 0]
    /\ expired = [o \in OrderIds |-> FALSE]
    /\ paidTx = [o \in OrderIds |-> 0]
    /\ nextId = 1
    /\ sessions = {}
    /\ task = [t \in Tasks |-> IdleTask]
    /\ ret = NoRet
    /\ quote = NoQuotes
    /\ InitBackend
    /\ InitSide
    /\ outcome = [t \in Tasks |-> NoOutcome]

\* the lease owner of every slot that is still bound after a pool write
HeldAfter(sl) == [s \in Suffixes |-> IF sl[s] = Free THEN 0 ELSE heldFor[s]]

\* ---------------------------------------------------------------- create_order
\* creators that hold no order id yet
Unnumbered == {t \in Tasks : task[t].pc \in {"c_release", "c_reserve", "c_retry"}}

\* the caller's view of its one create_order call (SpecAlloc only)
Tracked(t) ==
    IF outcome[t].state = "off" THEN outcome
    ELSE [outcome EXCEPT ![t] =
             IF ret'.op = "create"
             THEN [state |-> ret'.result, suffix |-> task[t].suffix]
             ELSE [state |-> "running", suffix |-> 0]]

\* AllocateStep that never answers None: with no free slot it takes a bound one
AllocateStepEvicting(t, u, b) ==
    /\ \E s \in (IF FreeSlots = {} THEN Suffixes ELSE FreeSlots) :
            /\ slots' = Reserved(s, TempId(u))
            /\ heldFor' = [heldFor EXCEPT ![s] = 0]
            /\ task' = [task EXCEPT ![t] =
                   [IdleTask EXCEPT !.pc = "c_release", !.op = "create",
                                    !.user = u, !.base = b, !.suffix = s]]
            /\ ret' = NoRet
    /\ outcome' = Tracked(t)
    /\ UNCHANGED <<orders, amountIdx, expired, paidTx, nextId, sessions,
                   quote,
                   backend, side>>

\* suffix = await suffix_generator.allocate_suffix(order_id_temp): one atomic
\* claim of a free slot; None when every slot is bound
AllocateStep(t, u, b) ==
    /\ IF FreeSlots = {}
       THEN /\ task' = [task EXCEPT ![t] = IdleTask]
            /\ ret' = Ret("create", "exhausted")
            /\ UNCHANGED <<slots, heldFor>>
       ELSE \E s \in FreeSlots :
            /\ slots' = Reserved(s, TempId(u))
            /\ heldFor' = heldFor
            /\ task' = [task EXCEPT ![t] =
                   [IdleTask EXCEPT !.pc = "c_release", !.op = "create",
                                    !.user = u, !.base = b, !.suffix = s]]
            /\ ret' = NoRet
    /\ outcome' = Tracked(t)
    /\ UNCHANGED <<orders, amountIdx, expired, paidTx, nextId, sessions,
                   quote,
                   backend, side>>

create_order(t, u, b) ==
    /\ task[t].pc = "idle"
    /\ outcome[t].state \in {"off", "none"}
    /\ nextId + Cardinality(Unnumbered) <= MaxOrders
    /\ AllocateStep(t, u, b)

\* return await self.create_order(user_id, base_amount)
CreateRetry(t) ==
    /\ task[t].pc = "c_retry"
    /\ AllocateStep(t, task[t].user, task[t].base)

\* await suffix_generator.release_suffix(suffix, order_id_temp)
CreateRelease(t) ==
    /\ task[t].pc = "c_release"
    /\ slots' = Released(task[t].suffix, TempId(task[t].user))
    /\ heldFor' = HeldAfter(slots')
    /\ task' = [task EXCEPT ![t].pc = "c_reserve"]
    /\ ret' = NoRet
    /\ outcome' = Tracked(t)
    /\ UNCHANGED <<orders, amountIdx, expired, paidTx, nextId, sessions,
                   quote,
                   backend, side>>

\* CreateReserve with a plain SET in the place of SET NX: the suffix is bound to
\* the new order whoever holds it
CreateReserveOverwriting(t) ==
    /\ task[t].pc = "c_reserve"
    /\ slots' = Reserved(task[t].suffix, OrderBinding(nextId))
    /\ heldFor' = [heldFor EXCEPT ![task[t].suffix] = nextId]
    /\ nextId' = nextId + 1
    /\ task' = [task EXCEPT ![t].pc = "c_save", ![t].order = nextId]
    /\ ret' = NoRet
    /\ outcome' = Tracked(t)
    /\ UNCHANGED <<orders, amountIdx, expired, paidTx, sessions,
                   quote,
                   backend, side>>

\* if not await suffix_generator._reserve_suffix(suffix, order.order_id): retry
CreateReserve(t) ==
    /\ task[t].pc = "c_reserve"
    /\ IF slots[task[t].suffix] = Free
       THEN /\ slots' = Reserved(task[t].suffix, OrderBinding(nextId))
            /\ heldFor' = [heldFor EXCEPT ![task[t].suffix] = nextId]
            /\ nextId' = nextId + 1
            /\ task' = [task EXCEPT ![t].pc = "c_save", ![t].order = nextId]
       ELSE /\ task' = [task EXCEPT ![t].pc = "c_retry", ![t].suffix = 0]
            /\ UNCHANGED <<slots, heldFor, nextId>>
    /\ ret' = NoRet
    /\ outcome' = Tracked(t)
    /\ UNCHANGED <<orders, amountIdx, expired, paidTx, sessions,
                   quote,
                   backend, side>>

\* await self._save_order(order); return order
CreateSave(t) ==
    /\ task[t].pc = "c_save"
    /\ LET rec == Order(task[t].base, task[t].suffix)
       IN /\ orders' = SavedOrders(task[t].order, rec)
          /\ amountIdx' = SavedIndex(task[t].order, rec)
    /\ task' = [task EXCEPT ![t] = IdleTask]
    /\ ret' = Ret("create", "order")
    /\ outcome' = Tracked(t)
    /\ UNCHANGED <<slots, heldFor, expired, paidTx, nextId, sessions,
                   quote,
                   backend, side>>

\* await self._save_order(order) when the store does not take the write: the
\* pipeline raises, or it answers a falsy result, which create_order never reads
CreateSaveFails(t, raised) ==
    /\ task[t].pc = "c_save"
    /\ task' = [task EXCEPT ![t] = IdleTask]
    /\ ret' = Ret("create", IF raised THEN "error" ELSE "order")
    /\ outcome' = Tracked(t)
    /\ UNCHANGED <<orders, amountIdx, slots, heldFor, expired, paidTx, nextId, sessions,
                   quote,
                   backend, side>>

\* ---------------------------------------------------------------- update_order_status
\* what the caller of update_order_status does with the value it returns
TaskAfterUpdate(t) ==
    IF task[t].op = "sweep"
    THEN [IdleTask EXCEPT !.pc = "s_loop", !.op = "sweep", !.todo = task[t].todo,
                          !.count = task[t].count + 1]
    ELSE IdleTask

RetAfterUpdate(t, ok) ==
    CASE task[t].op = "callback" ->
             [Ret("callback", IF task[t].target = "EXPIRED" THEN "late"
                              ELSE IF ok THEN "ok" ELSE "fail")
                 EXCEPT !.pre = task[t].pre, !.sigOk = task[t].sigOk,
                        !.hit = task[t].hit]
      [] task[t].op = "cancel" ->
             Ret("cancel", IF ok THEN "ok" ELSE "fail")
      [] OTHER -> NoRet

\* order = await self.get_order(order_id), and the two early returns
UpdGet(t) ==
    /\ task[t].pc = "u_get"
    /\ LET rec == orders[task[t].order]
       IN IF rec.status = "NONE"
             \/ ~_is_valid_status_transition(rec.status, task[t].target)
          THEN /\ task' = [task EXCEPT ![t] = TaskAfterUpdate(t)]
               /\ ret' = RetAfterUpdate(t, FALSE)
          ELSE /\ task' = [task EXCEPT ![t].pc = "u_release",
                                       ![t].base = rec.base, ![t].suffix = rec.suffix]
               /\ ret' = NoRet
    /\ UNCHANGED <<orders, amountIdx, slots, heldFor, expired, paidTx, nextId, sessions, outcome,
                   quote,
                   backend, side>>

\* UpdRelease without the release: the status is saved, the suffix stays bound
UpdReleaseSkipped(t) ==
    /\ task[t].pc = "u_release"
    /\ task' = [task EXCEPT ![t].pc = "u_save"]
    /\ ret' = NoRet
    /\ UNCHANGED <<orders, amountIdx, slots, heldFor, expired, paidTx, nextId, sessions,
                   outcome,
                   quote,
                   backend, side>>

\* await suffix_generator.release_suffix(order.unique_suffix, order_id)
UpdRelease(t) ==
    /\ task[t].pc = "u_release"
    /\ slots' = Released(task[t].suffix, OrderBinding(task[t].order))
    /\ heldFor' = HeldAfter(slots')
    /\ task' = [task EXCEPT ![t].pc = "u_save"]
    /\ ret' = NoRet
    /\ UNCHANGED <<orders, amountIdx, expired, paidTx, nextId, sessions, outcome,
                   quote,
                   backend, side>>

\* return await self._save_order(order): the order object read by UpdGet is
\* written back whole with its status replaced
UpdSave(t) ==
    /\ task[t].pc = "u_save"
    /\ LET rec == [status |-> task[t].target, base |-> task[t].base,
                   suffix |-> task[t].suffix]
       IN /\ orders' = SavedOrders(task[t].order, rec)
          /\ amountIdx' = SavedIndex(task[t].order, rec)
    /\ paidTx' = IF task[t].target = "PAID" /\ orders[task[t].order].status # "PAID"
                 THEN [paidTx EXCEPT ![task[t].order] = task[t].tx]
                 ELSE paidTx
    /\ task' = [task EXCEPT ![t] = TaskAfterUpdate(t)]
    /\ ret' = RetAfterUpdate(t, TRUE)
    /\ UNCHANGED <<slots, heldFor, expired, nextId, sessions, outcome,
                   quote,
                   backend, side>>

\* ---------------------------------------------------------------- payment callback
\* the amounts a payer can send: the three-decimal totals, and every total
\* missed by one micro-unit
CallbackAmounts ==
    {calculate_total_amount(b, s) : b \in Bases, s \in Suffixes}
        \cup {[k |-> calculate_total_amount(b, s).k - 1, err |-> 0] :
                  b \in Bases, s \in Suffixes}

\* what an arriving callback is to the order it names
PreOf(oid, amount, tx) ==
    IF orders[oid].status = "NONE" THEN "none"
    ELSE IF round_micro(TotalOf(orders[oid])) # round_micro(amount)
    THEN IF orders[oid].status = "PENDING" THEN "wrong_amount" ELSE "other"
    ELSE IF orders[oid].status = "PENDING"
    THEN IF expired[oid] THEN "late" ELSE "live"
    ELSE IF orders[oid].status = "PAID"
    THEN IF paidTx[oid] = tx THEN "paid" ELSE "paid_other_tx"
    ELSE "other"

\* what the amount index holds for the amount of an arriving callback
HitOf(oid, amount) ==
    LET id == find_order_by_amount(amount)
    IN IF id = 0 THEN "none" ELSE IF id = oid THEN "same" ELSE "other"

\* Rejection without the comparison of the two order ids
RejectionByAmountOnly(oid, amount) ==
    LET id == find_order_by_amount(amount)
    IN IF id = 0 THEN "not_found"
       ELSE IF ~amounts_match(TotalOf(orders[id]), amount) THEN "amount_mismatch"
       ELSE "none"

\* Rejection without the comparison of the two amounts
RejectionByKeyOnly(oid, amount) ==
    LET id == find_order_by_amount(amount)
    IN IF id = 0 THEN "not_found"
       ELSE IF id # oid THEN "id_mismatch"
       ELSE "none"

\* the three checks both entry points make before they touch the order:
\* find_order_by_amount, the order id, the exact amount
Rejection(oid, amount) ==
    LET id == find_order_by_amount(amount)
    IN IF id = 0 THEN "not_found"
       ELSE IF id # oid THEN "id_mismatch"
       ELSE IF ~amounts_match(TotalOf(orders[id]), amount) THEN "amount_mismatch"
       ELSE "none"

\* PaymentProcessor.process_payment_callback: the checks, then
\* update_order_status(EXPIRED) for an expired order, else update_order_status(PAID)
process_payment_callback(t, oid, amount, tx) ==
    /\ task[t].pc = "idle"
    /\ LET pre == PreOf(oid, amount, tx)
           hit == HitOf(oid, amount)
           rj == Rejection(oid, amount)
       IN IF rj # "none"
          THEN /\ task' = [task EXCEPT ![t] = IdleTask]
               /\ ret' = [Ret("callback", rj) EXCEPT !.pre = pre, !.hit = hit]
          ELSE /\ task' = [task EXCEPT ![t] =
                      [IdleTask EXCEPT !.pc = "u_get", !.op = "callback",
                                       !.cbOrder = oid, !.tx = tx,
                                       !.pre = pre, !.hit = hit,
                                       !.order = find_order_by_amount(amount),
                                       !.target =
                                           IF expired[find_order_by_amount(amount)]
                                           THEN "EXPIRED" ELSE "PAID"]]
               /\ ret' = NoRet
    /\ UNCHANGED <<orders, amountIdx, slots, heldFor, expired, paidTx, nextId, sessions, outcome,
                   quote,
                   backend, side>>

\* TRC20Handler._process_payment: the same checks; past them the handler
\* evaluates OrderStatus.EXPIRED or OrderStatus.PAID, a name the module never
\* imports, and the NameError is answered by the except branch
_process_payment(oid, amount) ==
    LET rj == Rejection(oid, amount)
    IN IF rj # "none" THEN rj ELSE "processing_error"

\* handle_webhook without the early return on a signature that fails
handle_webhook_unverified(t, oid, amount, sig, tx) ==
    /\ task[t].pc = "idle"
    /\ ret' = [Ret("callback", _process_payment(oid, amount))
                  EXCEPT !.sigOk = sig, !.pre = PreOf(oid, amount, tx),
                         !.hit = HitOf(oid, amount)]
    /\ UNCHANGED <<orders, amountIdx, slots, heldFor, expired, paidTx, nextId, sessions, task,
                   outcome,
                   quote,
                   backend, side>>

\* signature_validator.verify_signature(payload, signature) decides sig
handle_webhook(t, oid, amount, sig, tx) ==
    /\ task[t].pc = "idle"
    /\ ret' = [Ret("callback", IF ~sig THEN "invalid_signature"
                               ELSE _process_payment(oid, amount))
                  EXCEPT !.sigOk = sig, !.pre = PreOf(oid, amount, tx),
                         !.hit = HitOf(oid, amount)]
    /\ UNCHANGED <<orders, amountIdx, slots, heldFor, expired, paidTx, nextId, sessions, task,
                   outcome,
                   quote,
                   backend, side>>

\* ---------------------------------------------------------------- expiry sweep
\* keys = await self.redis_client.keys("order:*")
cleanup_expired_orders(t) ==
    /\ task[t].pc = "idle"
    /\ task' = [task EXCEPT ![t] =
           [IdleTask EXCEPT !.pc = "s_loop", !.op = "sweep",
                            !.todo = {o \in OrderIds : orders[o].status # "NONE"}]]
    /\ ret' = NoRet
    /\ UNCHANGED <<orders, amountIdx, slots, heldFor, expired, paidTx, nextId, sessions, outcome,
                   quote,
                   backend, side>>

\* one iteration: get_order(order_id) and the test; return expired_count
SweepLoop(t) ==
    /\ task[t].pc = "s_loop"
    /\ IF task[t].todo = {}
       THEN /\ task' = [task EXCEPT ![t] = IdleTask]
            /\ ret' = [Ret("sweep", "swept") EXCEPT !.count = task[t].count]
       ELSE /\ \E o \in task[t].todo :
                IF orders[o].status = "PENDING" /\ expired[o]
                THEN task' = [task EXCEPT ![t].pc = "u_get", ![t].order = o,
                                          ![t].target = "EXPIRED",
                                          ![t].todo = task[t].todo \ {o}]
                ELSE task' = [task EXCEPT ![t].todo = task[t].todo \ {o}]
            /\ ret' = NoRet
    /\ UNCHANGED <<orders, amountIdx, slots, heldFor, expired, paidTx, nextId, sessions, outcome,
                   quote,
                   backend, side>>

\* ---------------------------------------------------------------- premium conversation
\* suffix = await self.suffix_manager.allocate_suffix(): no order id is given
PremiumAllocate(t, b) ==
    /\ task[t].pc = "idle"
    /\ outcome[t].state = "off"
    /\ nextId + Cardinality(Unnumbered) <= MaxOrders
    /\ IF FreeSlots = {}
       THEN /\ task' = [task EXCEPT ![t] = IdleTask]
            /\ ret' = Ret("premium", "exhausted")
            /\ UNCHANGED <<slots, heldFor, nextId>>
       ELSE \E s \in FreeSlots :
            /\ slots' = Reserved(s, NoOwner)
            /\ heldFor' = [heldFor EXCEPT ![s] = nextId]
            /\ nextId' = nextId + 1
            /\ task' = [task EXCEPT ![t] =
                   [IdleTask EXCEPT !.pc = "p_save", !.op = "premium", !.base = b,
                                    !.suffix = s, !.order = nextId]]
            /\ ret' = NoRet
    /\ UNCHANGED <<orders, amountIdx, expired, paidTx, sessions, outcome,
                   quote,
                   backend, side>>

\* order = await self.order_manager.create_order(...); the conversation keeps
\* order_id and unique_suffix and waits in CONFIRMING_PAYMENT
PremiumSave(t) ==
    /\ task[t].pc = "p_save"
    /\ LET rec == Order(task[t].base, task[t].suffix)
       IN /\ orders' = SavedOrders(task[t].order, rec)
          /\ amountIdx' = SavedIndex(task[t].order, rec)
    /\ sessions' = sessions \cup {<<task[t].order, task[t].suffix>>}
    /\ task' = [task EXCEPT ![t] = IdleTask]
    /\ ret' = Ret("premium", "order")
    /\ UNCHANGED <<slots, heldFor, expired, paidTx, nextId, outcome,
                   quote,
                   backend, side>>

\* PremiumHandler.cancel_order: release_suffix(unique_suffix), then
\* order_manager.cancel_order(order_id)
cancel_order(t, sess) ==
    /\ task[t].pc = "idle"
    /\ sess \in sessions
    /\ sessions' = sessions \ {sess}
    /\ slots' = Released(sess[2], NoOwner)
    /\ heldFor' = HeldAfter(slots')
    /\ task' = [task EXCEPT ![t] =
           [IdleTask EXCEPT !.pc = "u_get", !.op = "cancel", !.order = sess[1],
                            !.suffix = sess[2], !.target = "CANCELLED"]]
    /\ ret' = NoRet
    /\ UNCHANGED <<orders, amountIdx, expired, paidTx, nextId, outcome,
                   quote,
                   backend, side>>

\* ---------------------------------------------------------------- quoted amounts
\* base amounts and suffixes for which an amount is quoted
QuoteBases == {1, 2, 10}
QuoteSuffixes == {1, 2, 3, 5, 9, 10, 42, 99, 100, 123, 500, 999}

\* str(n) for a suffix: its decimal digits, without leading zeros
Digits(n) ==
    IF n < 10 THEN <<n>>
    ELSE IF n < 100 THEN <<n \div 10, n % 10>>
    ELSE <<n \div 100, (n \div 10) % 10, n % 10>>

\* the suffix written with three digits
Padded(n) == <<n \div 100, (n \div 10) % 10, n % 10>>

\* the unique_suffix strings handed to the services
SuffixStrings == {Digits(n) : n \in QuoteSuffixes} \cup {Padded(n) : n \in QuoteSuffixes}

\* int(unique_suffix)
IntOf(str) ==
    IF Len(str) = 1 THEN str[1]
    ELSE IF Len(str) = 2 THEN str[1] * 10 + str[2]
    ELSE str[1] * 100 + str[2] * 10 + str[3]

\* float(f"0.{unique_suffix}"), in micro-units: the digits are the decimals
suffix_decimal(str) ==
    IF Len(str) = 1 THEN str[1] * 100000
    ELSE IF Len(str) = 2 THEN str[1] * 100000 + str[2] * 10000
    ELSE str[1] * 100000 + str[2] * 10000 + str[3] * 1000

\* total_amount = amount + suffix_decimal, times 1000000 as a double
service_total(b, str) ==
    [k |-> b * 1000000 + suffix_decimal(str),
     err |-> IF suffix_decimal(str) % 1000 = 0
                /\ <<b, suffix_decimal(str) \div 1000>> \in BelowExact
             THEN -1 ELSE 0]

Quoted(q) == [prev |-> quote.last, last |-> q]

\* total_amount = self.calculate_total_amount(base_amount, suffix)
QuoteTotal(b, n) ==
    /\ quote' = Quoted([path |-> "processor", base |-> b, suffix |-> n,
                        total |-> calculate_total_amount(b, n)])
    /\ UNCHANGED <<orders, amountIdx, slots, heldFor, expired, paidTx, nextId, sessions,
                   task, ret, outcome,
                   backend, side>>

\* WalletService.create_deposit_order: "pay_amount": total_amount
create_deposit_order(b, str) ==
    /\ quote' = Quoted([path |-> "wallet", base |-> b, suffix |-> IntOf(str),
                        total |-> service_total(b, str)])
    /\ UNCHANGED <<orders, amountIdx, slots, heldFor, expired, paidTx, nextId, sessions,
                   task, ret, outcome,
                   backend, side>>

\* PremiumService.create_premium_order: "pay_amount": total_amount
create_premium_order(b, str) ==
    /\ quote' = Quoted([path |-> "premium", base |-> b, suffix |-> IntOf(str),
                        total |-> service_total(b, str)])
    /\ UNCHANGED <<orders, amountIdx, slots, heldFor, expired, paidTx, nextId, sessions,
                   task, ret, outcome,
                   backend, side>>

\* ---------------------------------------------------------------- time
\* the clock passes expires_at of an issued order
PassExpiry(o) ==
    /\ o < nextId
    /\ ~expired[o]
    /\ expired' = [expired EXCEPT ![o] = TRUE]
    /\ ret' = NoRet
    /\ UNCHANGED <<orders, amountIdx, slots, heldFor, paidTx, nextId, sessions, task, outcome,
                   quote,
                   backend, side>>

\* a process dies between the awaits of create_order: what it holds in the
\* pool is left as it is
Crash(t) ==
    /\ task[t].pc \in {"c_release", "c_reserve", "c_save"}
    /\ task' = [task EXCEPT ![t] = IdleTask]
    /\ ret' = NoRet
    /\ UNCHANGED <<orders, amountIdx, slots, heldFor, expired, paidTx, nextId, sessions,
                   outcome,
                   quote,
                   backend, side>>

\* a slot binding that carries no TTL
SlotLeaseForever(s) ==
    /\ slots[s] # Free
    /\ FALSE
    /\ UNCHANGED vars

\* the lease of a slot lapses: it outlives the payment window of the order it
\* was taken for; a lease taken under a temporary id belongs to no order
SlotLapse(s) ==
    /\ slots[s] # Free
    /\ IF heldFor[s] = 0 THEN TRUE ELSE expired[heldFor[s]]
    /\ slots' = [slots EXCEPT ![s] = Free]
    /\ heldFor' = HeldAfter(slots')
    /\ ret' = NoRet
    /\ UNCHANGED <<orders, amountIdx, expired, paidTx, nextId, sessions, task, outcome,
                   quote,
                   backend, side>>

\* the TTL of "order:<id>" lapses (ex = timeout + 300 s, set by the last save),
\* and with it the index key written by the same pipeline
KeyLapse(o) ==
    /\ orders[o].status # "NONE"
    /\ expired[o]
    /\ orders' = [orders EXCEPT ![o] = NoOrder]
    /\ amountIdx' = [k \in AmountKeys |->
                        IF k = amount_in_micro_usdt(TotalOf(orders[o])) /\ amountIdx[k] = o
                        THEN 0 ELSE amountIdx[k]]
    /\ paidTx' = [paidTx EXCEPT ![o] = 0]
    /\ ret' = NoRet
    /\ UNCHANGED <<slots, heldFor, expired, nextId, sessions, task, outcome,
                   quote,
                   backend, side>>

\* ---------------------------------------------------------------- backend orders
\* UserRepository.get_or_create: the row of user u, made with balance 0
get_or_create(u) == [dbUsers EXCEPT ![u] = IF @ = NoUser THEN 0 ELSE @]

\* OrderRepository.create_order, called by create_deposit_order and
\* create_premium_order after get_or_create: a new row with status "PENDING"
OrderRepository_create_order(u, a) ==
    /\ \E o \in BackendOrders :
          /\ dbOrders[o] = NoRow
          /\ \A p \in BackendOrders : p < o => dbOrders[p] # NoRow
          /\ dbOrders' = [dbOrders EXCEPT ![o] = [status |-> "PENDING", user |-> u, base |-> a]]
          /\ reply' = Reply("create", o, "order", "PENDING")
    /\ dbUsers' = get_or_create(u)
    /\ UNCHANGED <<core, side, gifts, credited, job>>

\* get_by_order_id, then the two early returns of a status change that is
\* made only for an order whose status reads as `expects`
CheckedStatusChange(j, o, op, expects, target) ==
    /\ job[j].pc = "idle"
    /\ LET row == dbOrders[o]
       IN IF row = NoRow
          THEN /\ reply' = Reply(op, o, "not_found", "NONE")
               /\ job' = job
          ELSE IF row.status # expects
          THEN /\ reply' = Reply(op, o, "refused", row.status)
               /\ job' = job
          ELSE /\ reply' = NoReply
               /\ job' = [job EXCEPT ![j] =
                              [IdleJob EXCEPT !.pc = "b_write", !.op = op, !.order = o,
                                              !.seen = row.status, !.target = target,
                                              !.user = row.user, !.amount = row.base]]
    /\ UNCHANGED <<core, side, dbOrders, dbUsers, gifts, credited>>

\* cancel_order_task
cancel_order_task(j, o) == CheckedStatusChange(j, o, "cancel_task", "PENDING", "CANCELLED")

\* OrderService.cancel_order
OrderService_cancel_order(j, o) ==
    CheckedStatusChange(j, o, "cancel_order", "pending", "cancelled")

\* process_payment without its status test
process_payment_any_status(j, o) ==
    CheckedStatusChange(j, o, "process_payment", dbOrders[o].status, "PAID")

\* PremiumService.process_payment
process_payment(j, o) == CheckedStatusChange(j, o, "process_payment", "PENDING", "PAID")

\* process_deposit testing for the status as create_order stores it
process_deposit_upper_case(j, o) ==
    CheckedStatusChange(j, o, "process_deposit", "PENDING", "paid")

\* WalletService.process_deposit
process_deposit(j, o) == CheckedStatusChange(j, o, "process_deposit", "pending", "paid")

\* OrderRepository.update_status: the row is written whatever it holds now
\* (the session hands back the instance it read before), and committed
update_status(j) ==
    /\ job[j].pc = "b_write"
    /\ dbOrders' = [dbOrders EXCEPT ![job[j].order].status = job[j].target]
    /\ IF job[j].op = "process_deposit"
       THEN /\ job' = [job EXCEPT ![j].pc = "b_user"]
            /\ reply' = NoReply
       ELSE IF job[j].op = "deliver" /\ job[j].target = "PARTIAL"
       THEN /\ job' = [job EXCEPT ![j].pc = "d_rollback"]
            /\ reply' = NoReply
       ELSE /\ job' = [job EXCEPT ![j] = IdleJob]
            /\ reply' = Reply(job[j].op, job[j].order, "success", job[j].seen)
    /\ UNCHANGED <<core, side, dbUsers, gifts, credited>>

\* ---------------------------------------------------------------- backend balances
\* UserRepository.update_balance(user_id, amount), called on its own
update_balance(j, u, a) ==
    /\ job[j].pc = "idle"
    /\ job' = [job EXCEPT ![j] = [IdleJob EXCEPT !.pc = "b_user", !.op = "credit",
                                                   !.user = u, !.amount = a]]
    /\ reply' = NoReply
    /\ UNCHANGED <<core, side, dbOrders, dbUsers, gifts, credited>>

\* WalletService.debit -> UserRepository.debit_balance(user_id, amount)
debit_balance(j, u, a) ==
    /\ job[j].pc = "idle"
    /\ job' = [job EXCEPT ![j] = [IdleJob EXCEPT !.pc = "b_user", !.op = "debit",
                                                   !.user = u, !.amount = a]]
    /\ reply' = NoReply
    /\ UNCHANGED <<core, side, dbOrders, dbUsers, gifts, credited>>

\* what WalletService.debit returns for the outcome of debit_balance: True
\* unless debit_balance raised ValueError
WalletService_debit(result) == result # "insufficient"

\* debit_balance without its balance test
get_by_user_id_unchecked(j) ==
    /\ job[j].pc = "b_user"
    /\ job[j].op = "debit" \/ dbUsers[job[j].user] + Micro(job[j].amount) <= Micro(MaxBalance)
    /\ LET bal == dbUsers[job[j].user]
       IN IF bal = NoUser
          THEN /\ job' = [job EXCEPT ![j] = IdleJob]
               /\ reply' = Reply(job[j].op, job[j].order,
                                 IF job[j].op = "process_deposit" THEN "success" ELSE "no_user",
                                 job[j].seen)
          ELSE /\ job' = [job EXCEPT ![j].pc = "b_balance", ![j].balance = bal]
               /\ reply' = NoReply
    /\ UNCHANGED <<core, side, dbOrders, dbUsers, gifts, credited>>

\* get_by_user_id at the head of update_balance and debit_balance, the
\* "if not user: return None" (after which process_deposit still returns
\* True), and the balance test of debit_balance
get_by_user_id(j) ==
    /\ job[j].pc = "b_user"
    /\ job[j].op = "debit" \/ dbUsers[job[j].user] + Micro(job[j].amount) <= Micro(MaxBalance)
    /\ LET bal == dbUsers[job[j].user]
       IN IF bal = NoUser
          THEN /\ job' = [job EXCEPT ![j] = IdleJob]
               /\ reply' = Reply(job[j].op, job[j].order,
                                 IF job[j].op = "process_deposit" THEN "success" ELSE "no_user",
                                 job[j].seen)
          ELSE IF job[j].op = "debit" /\ bal < Micro(job[j].amount)
          THEN /\ job' = [job EXCEPT ![j] = IdleJob]
               /\ reply' = Reply("debit", 0, "insufficient", "NONE")
          ELSE /\ job' = [job EXCEPT ![j].pc = "b_balance", ![j].balance = bal]
               /\ reply' = NoReply
    /\ UNCHANGED <<core, side, dbOrders, dbUsers, gifts, credited>>

\* user.balance_micro_usdt += / -= int(amount * 1_000_000); commit: the value
\* written is computed from the balance this session read
commit_balance(j) ==
    /\ job[j].pc = "b_balance"
    /\ dbUsers' = [dbUsers EXCEPT ![job[j].user] =
                       IF job[j].op = "debit"
                       THEN job[j].balance - Micro(job[j].amount)
                       ELSE job[j].balance + Micro(job[j].amount)]
    /\ credited' = IF job[j].op = "process_deposit"
                   THEN [credited EXCEPT ![job[j].order] = @ + 1]
                   ELSE credited
    /\ job' = [job EXCEPT ![j] = IdleJob]
    /\ reply' = Reply(job[j].op, job[j].order, "success", job[j].seen)
    /\ UNCHANGED <<core, side, dbOrders, gifts>>

\* ---------------------------------------------------------------- premium delivery
\* deliver_premium_task up to the gift call: the order is read; it must
\* exist, be PAID, and carry the recipient in its metadata attribute
deliver_premium_task(j, o, recipient) ==
    /\ job[j].pc = "idle"
    /\ LET row == dbOrders[o]
       IN IF row = NoRow
          THEN /\ reply' = Reply("deliver", o, "PremiumDeliveryError", "NONE")
               /\ job' = job
          ELSE IF row.status # "PAID"
          THEN /\ reply' = Reply("deliver", o, "refused", row.status)
               /\ job' = job
          ELSE IF ~recipient
          THEN /\ reply' = Reply("deliver", o, "PremiumDeliveryError", row.status)
               /\ job' = job
          ELSE /\ reply' = NoReply
               /\ job' = [job EXCEPT ![j] =
                              [IdleJob EXCEPT !.pc = "d_gift", !.op = "deliver",
                                              !.order = o, !.seen = row.status]]
    /\ UNCHANGED <<core, side, dbOrders, dbUsers, gifts, credited>>

\* a gift call whose failure is followed by the success branch
call_telegram_gift_premium_error_ignored(j, ok) ==
    /\ job[j].pc = "d_gift"
    /\ gifts' = IF ok THEN [gifts EXCEPT ![job[j].order] = @ + 1] ELSE gifts
    /\ job' = [job EXCEPT ![j].pc = "b_write", ![j].gifted = ok,
                           ![j].target = "DELIVERED"]
    /\ reply' = NoReply
    /\ UNCHANGED <<core, side, dbOrders, dbUsers, credited>>

\* _call_telegram_gift_premium with its retries: the gift is made, or
\* TelegramAPIError is raised once the attempts are used up; the task goes
\* on to update_status(DELIVERED), or to update_status(PARTIAL)
call_telegram_gift_premium(j, ok) ==
    /\ job[j].pc = "d_gift"
    /\ gifts' = IF ok THEN [gifts EXCEPT ![job[j].order] = @ + 1] ELSE gifts
    /\ job' = [job EXCEPT ![j].pc = "b_write", ![j].gifted = ok,
                           ![j].target = IF ok THEN "DELIVERED" ELSE "PARTIAL"]
    /\ reply' = NoReply
    /\ UNCHANGED <<core, side, dbOrders, dbUsers, credited>>

\* a rollback that restores the status the task had read
rollback_restoring(j) ==
    /\ job[j].pc = "d_rollback"
    /\ dbOrders' = [dbOrders EXCEPT ![job[j].order].status = job[j].seen]
    /\ job' = [job EXCEPT ![j] = IdleJob]
    /\ reply' = Reply("deliver", job[j].order, "TelegramAPIError", job[j].seen)
    /\ UNCHANGED <<core, side, dbUsers, gifts, credited>>

\* the outer handler after the commit of PARTIAL: db.rollback() finds
\* nothing uncommitted, and the error is raised again
rollback(j) ==
    /\ job[j].pc = "d_rollback"
    /\ job' = [job EXCEPT ![j] = IdleJob]
    /\ reply' = Reply("deliver", job[j].order, "TelegramAPIError", job[j].seen)
    /\ UNCHANGED <<core, side, dbOrders, dbUsers, gifts, credited>>

\* ---------------------------------------------------------------- backend webhook
\* the callback names a row of deposit_orders, or an order that is not stored
CallbackOrders == BackendOrders \cup {0}

\* OrderService.__init__(self, order_repo, setting_repo), called with nargs
\* arguments
OrderService_init(nargs) == IF nargs = 2 THEN "service" ELSE "TypeError"

\* the methods of OrderService
OrderServiceMethods ==
    {"get_order", "get_order_by_suffix", "cancel_order", "expire_pending_orders",
     "get_statistics", "get_recent_orders"}

\* the HTTP status the handler answers with once the signature is verified:
\* OrderService(db) is evaluated before the try block, so its TypeError is
\* answered by the framework with 500; and order_service.process_payment,
\* inside the try block, is no method of OrderService, which
\* "except Exception" answers with 500 as well
order_service_answer(o) ==
    IF OrderService_init(1) = "TypeError" THEN 500
    ELSE IF "process_payment" \notin OrderServiceMethods THEN 500
    ELSE IF o = 0 \/ dbOrders[o] = NoRow THEN 400
    ELSE 200

\* trc20_callback
trc20_callback(o, sig) ==
    /\ reply' = [Reply("webhook", o, "http",
                       IF o = 0 THEN "NONE" ELSE dbOrders[o].status)
                    EXCEPT !.sigOk = sig,
                           !.code = IF ~sig THEN 400 ELSE order_service_answer(o)]
    /\ UNCHANGED <<core, side, dbOrders, dbUsers, gifts, credited, job>>

\* ---------------------------------------------------------------- callback signature
DigitChars == <<"0", "1", "2", "3", "4", "5", "6", "7", "8", "9">>

\* the decimal digits of n as characters
StrOf(n) == [i \in 1..Len(Digits(n)) |-> DigitChars[Digits(n)[i] + 1]]

\* f"{amount_usdt}" of a float with at most two decimals, given in hundredths:
\* the shortest decimals that read back as the same float, at least one
FloatStr(c) ==
    StrOf(c \div 100) \o <<".">>
        \o (IF c % 10 = 0
            THEN <<DigitChars[((c % 100) \div 10) + 1]>>
            ELSE <<DigitChars[((c % 100) \div 10) + 1], DigitChars[(c % 10) + 1]>>)

\* order ids and transaction hashes are strings of letters and hex digits
\* (shortened here), amounts are floats (in hundredths here)
SigOrderIds == {<<"A">>, <<"A", "1">>}
SigAmounts == {150, 155, 250, 1250}
SigTxs == {<<"b">>, <<"5", "b">>}

\* message = f"{order_id}{amount_usdt}{tx_hash}"
SignedMessage(order_id, amount_usdt, tx_hash) ==
    order_id \o FloatStr(amount_usdt) \o tx_hash

\* HMAC-SHA256 under the configured secret, taken as free of collisions: two
\* digests are equal exactly when key and message are
hmac_sha256(secret, message) == <<secret, message>>

generate_trc20_signature(order_id, amount_usdt, tx_hash) ==
    hmac_sha256("trc20_webhook_secret", SignedMessage(order_id, amount_usdt, tx_hash))

\* hmac.compare_digest(expected_signature, signature)
verify_trc20_signature(order_id, amount_usdt, tx_hash, signature) ==
    generate_trc20_signature(order_id, amount_usdt, tx_hash) = signature

\* the sender signs a callback
IssueSignature(o, a, tx) ==
    /\ signed' = [NoSigned EXCEPT !.order = o, !.amount = a, !.tx = tx,
                                  !.signature = generate_trc20_signature(o, a, tx)]
    /\ UNCHANGED <<core, backend, trxOrders, trxRun>>

\* a request arrives with the signature issued last and is verified
CheckSignature(o, a, tx) ==
    /\ signed.signature # <<>>
    /\ signed' = [signed EXCEPT !.claimOrder = o, !.claimAmount = a, !.claimTx = tx,
                                !.checked = TRUE,
                                !.valid = verify_trc20_signature(o, a, tx, signed.signature)]
    /\ UNCHANGED <<core, backend, trxOrders, trxRun>>

\* ---------------------------------------------------------------- TRX exchange
\* USDT amounts entered by users, and values random.randint(1, 999) returns
TrxBases == {5, 10}
TrxSuffixes == {1, 500, 999}

\* base_amount + Decimal(f"0.{suffix:03d}"), in thousandths of a USDT
generate_unique_amount(base_amount, suffix) == base_amount * 1000 + suffix

FreshTrxIds == {o \in TrxIds : trxOrders[o].status = "NONE"}

\* show_payment: the amount is drawn, the order is added as PENDING and committed
show_payment(base, suffix) ==
    /\ FreshTrxIds # {}
    /\ LET o == CHOOSE id \in FreshTrxIds : \A other \in FreshTrxIds : id <= other
       IN trxOrders' = [trxOrders EXCEPT ![o] =
              [NoTrxOrder EXCEPT !.status = "PENDING", !.base = base,
                                 !.usdt_amount = generate_unique_amount(base, suffix)]]
    /\ UNCHANGED <<core, backend, signed, trxRun>>

\* handle_payment_callback that takes every order it finds for a PENDING one
handle_payment_callback_unchecked(o) ==
    /\ trxRun.pc = "idle"
    /\ IF trxOrders[o].status = "NONE"
       THEN /\ trxRun' = [NoTrxRun EXCEPT !.order = o, !.log = "not_found"]
            /\ UNCHANGED trxOrders
       ELSE /\ trxOrders' = [trxOrders EXCEPT ![o].status = "PAID"]
            /\ trxRun' = [pc |-> "send", order |-> o, log |-> "paid"]
    /\ UNCHANGED <<core, backend, signed>>

\* handle_payment_callback up to the commit of PAID.  The handler awaits
\* nothing, so a call runs to its end before the event loop starts another
handle_payment_callback(o) ==
    /\ trxRun.pc = "idle"
    /\ IF trxOrders[o].status = "NONE"
       THEN /\ trxRun' = [NoTrxRun EXCEPT !.order = o, !.log = "not_found"]
            /\ UNCHANGED trxOrders
       ELSE IF trxOrders[o].status # "PENDING"
       THEN /\ trxRun' = [NoTrxRun EXCEPT !.order = o, !.log = "already_processed"]
            /\ UNCHANGED trxOrders
       ELSE /\ trxOrders' = [trxOrders EXCEPT ![o].status = "PAID"]
            /\ trxRun' = [pc |-> "send", order |-> o, log |-> "paid"]
    /\ UNCHANGED <<core, backend, signed>>

\* tx_hash = self.trx_sender.send_trx(...): a hash comes back and the order is
\* committed as TRANSFERRED, or the call raises and it is committed as FAILED
send_trx(returned) ==
    /\ trxRun.pc = "send"
    /\ LET o == trxRun.order
       IN /\ trxOrders' = [trxOrders EXCEPT
                 ![o].sends = trxOrders[o].sends + 1,
                 ![o].status = IF returned THEN "TRANSFERRED" ELSE "FAILED",
                 ![o].tx_hash = IF returned THEN 1 ELSE 0]
          /\ trxRun' = [NoTrxRun EXCEPT !.order = o,
                                        !.log = IF returned THEN "transferred" ELSE "failed"]
    /\ UNCHANGED <<core, backend, signed>>

\* ---------------------------------------------------------------- specifications
\* PaymentProcessor, the webhook and the sweep, under the passage of time
Next ==
    \/ \E t \in Tasks, u \in Users, b \in Bases : create_order(t, u, b)
    \/ \E t \in Tasks : CreateRetry(t)
    \/ \E t \in Tasks : CreateRelease(t)
    \/ \E t \in Tasks : CreateReserve(t)
    \/ \E t \in Tasks : CreateSave(t)
    \/ \E t \in Tasks : UpdGet(t)
    \/ \E t \in Tasks : UpdRelease(t)
    \/ \E t \in Tasks : UpdSave(t)
    \/ \E t \in Tasks, oid \in OrderIds, amount \in CallbackAmounts :
           process_payment_callback(t, oid, amount, SomeTx)
    \/ \E t \in Tasks, oid \in OrderIds, amount \in CallbackAmounts, sig \in BOOLEAN :
           handle_webhook(t, oid, amount, sig, SomeTx)
    \/ \E t \in Tasks : cleanup_expired_orders(t)
    \/ \E t \in Tasks : SweepLoop(t)
    \/ \E o \in OrderIds : PassExpiry(o)
    \/ \E s \in Suffixes : SlotLapse(s)
    \/ \E o \in OrderIds : KeyLapse(o)

Spec == Init /\ [][Next]_vars

\* PaymentProcessor and the sweep, with the premium conversation creating and
\* cancelling orders
NextPremium ==
    \/ \E t \in Tasks, u \in Users, b \in Bases : create_order(t, u, b)
    \/ \E t \in Tasks : CreateRetry(t)
    \/ \E t \in Tasks : CreateRelease(t)
    \/ \E t \in Tasks : CreateReserve(t)
    \/ \E t \in Tasks : CreateSave(t)
    \/ \E t \in Tasks : UpdGet(t)
    \/ \E t \in Tasks : UpdRelease(t)
    \/ \E t \in Tasks : UpdSave(t)
    \/ \E t \in Tasks, oid \in OrderIds, amount \in CallbackAmounts :
           process_payment_callback(t, oid, amount, SomeTx)
    \/ \E t \in Tasks : cleanup_expired_orders(t)
    \/ \E t \in Tasks : SweepLoop(t)
    \/ \E t \in Tasks, b \in Bases : PremiumAllocate(t, b)
    \/ \E t \in Tasks : PremiumSave(t)
    \/ \E t \in Tasks, sess \in sessions : cancel_order(t, sess)
    \/ \E o \in OrderIds : PassExpiry(o)
    \/ \E s \in Suffixes : SlotLapse(s)

SpecPremium == Init /\ [][NextPremium]_vars

\* every task calls create_order once, concurrently, against the free pool
InitAlloc ==
    /\ orders = [o \in OrderIds |-> NoOrder]
    /\ amountIdx = [k \in AmountKeys |-> 0]
    /\ slots = [s \in Suffixes |-> Free]
    /\ heldFor = [s \in Suffixes |-> 0]
    /\ expired = [o \in OrderIds |-> FALSE]
    /\ paidTx = [o \in OrderIds |-> 0]
    /\ nextId = 1
    /\ sessions = {}
    /\ task = [t \in Tasks |-> IdleTask]
    /\ ret = NoRet
    /\ quote = NoQuotes
    /\ InitBackend
    /\ InitSide
    /\ outcome = [t \in Tasks |-> [state |-> "none", suffix |-> 0]]

NextAlloc ==
    \/ \E t \in Tasks, u \in Users, b \in Bases : create_order(t, u, b)
    \/ \E t \in Tasks : CreateRetry(t)
    \/ \E t \in Tasks : CreateRelease(t)
    \/ \E t \in Tasks : CreateReserve(t)
    \/ \E t \in Tasks : CreateSave(t)

SpecAlloc == InitAlloc /\ [][NextAlloc]_vars

\* the same calls under the event loop's scheduling: an awaited step that
\* stays ready is resumed
SpecAllocFair ==
    /\ InitAlloc
    /\ [][NextAlloc]_vars
    /\ \A t \in Tasks : WF_vars(CreateRetry(t))
    /\ \A t \in Tasks : WF_vars(CreateRelease(t))
    /\ \A t \in Tasks : WF_vars(CreateReserve(t))
    /\ \A t \in Tasks : WF_vars(CreateSave(t))

\* the same calls against a store whose writes may fail
NextStore ==
    \/ \E t \in Tasks, u \in Users, b \in Bases : create_order(t, u, b)
    \/ \E t \in Tasks : CreateRetry(t)
    \/ \E t \in Tasks : CreateRelease(t)
    \/ \E t \in Tasks : CreateReserve(t)
    \/ \E t \in Tasks : CreateSave(t)
    \/ \E t \in Tasks, raised \in BOOLEAN : CreateSaveFails(t, raised)

SpecStore == InitAlloc /\ [][NextStore]_vars

\* orders are created and callbacks arrive on both entry points, each
\* carrying any transaction hash; no payment window ends
NextCallback ==
    \/ \E t \in Tasks, u \in Users, b \in Bases : create_order(t, u, b)
    \/ \E t \in Tasks : CreateRetry(t)
    \/ \E t \in Tasks : CreateRelease(t)
    \/ \E t \in Tasks : CreateReserve(t)
    \/ \E t \in Tasks : CreateSave(t)
    \/ \E t \in Tasks : UpdGet(t)
    \/ \E t \in Tasks : UpdRelease(t)
    \/ \E t \in Tasks : UpdSave(t)
    \/ \E t \in Tasks, oid \in OrderIds, amount \in CallbackAmounts, tx \in Txs :
           process_payment_callback(t, oid, amount, tx)
    \/ \E t \in Tasks, oid \in OrderIds, amount \in CallbackAmounts, sig \in BOOLEAN,
             tx \in Txs :
           handle_webhook(t, oid, amount, sig, tx)

SpecCallback == Init /\ [][NextCallback]_vars

\* creators that may die at any await, and the clock: time does pass and a
\* lease that has run out is removed
NextLease ==
    \/ \E t \in Tasks, u \in Users, b \in Bases : create_order(t, u, b)
    \/ \E t \in Tasks : CreateRetry(t)
    \/ \E t \in Tasks : CreateRelease(t)
    \/ \E t \in Tasks : CreateReserve(t)
    \/ \E t \in Tasks : CreateSave(t)
    \/ \E t \in Tasks : Crash(t)
    \/ \E o \in OrderIds : PassExpiry(o)
    \/ \E s \in Suffixes : SlotLapse(s)

SpecLease ==
    /\ Init
    /\ [][NextLease]_vars
    /\ \A o \in OrderIds : WF_vars(PassExpiry(o))
    /\ \A s \in Suffixes : WF_vars(SlotLapse(s))

\* callbacks are signed and requests are verified
NextSignature ==
    \/ \E o \in SigOrderIds, a \in SigAmounts, tx \in SigTxs : IssueSignature(o, a, tx)
    \/ \E o \in SigOrderIds, a \in SigAmounts, tx \in SigTxs : CheckSignature(o, a, tx)

SpecSignature == Init /\ [][NextSignature]_vars

\* exchange orders are opened and payment callbacks arrive for them, any
\* number of times
NextExchange ==
    \/ \E base \in TrxBases, suffix \in TrxSuffixes : show_payment(base, suffix)
    \/ \E o \in TrxIds : handle_payment_callback(o)
    \/ \E returned \in BOOLEAN : send_trx(returned)

SpecExchange == Init /\ [][NextExchange]_vars

\* amounts are quoted, one after the other, on every path that creates an order
NextAmount ==
    \/ \E b \in QuoteBases, n \in QuoteSuffixes : QuoteTotal(b, n)
    \/ \E b \in QuoteBases, str \in SuffixStrings : create_deposit_order(b, str)
    \/ \E b \in QuoteBases, str \in SuffixStrings : create_premium_order(b, str)

SpecAmount == Init /\ [][NextAmount]_vars

\* the backend: orders are created, cancelled, paid and delivered by
\* requests and worker jobs that interleave at their queries
NextBackend ==
    \/ \E u \in Holders, a \in WalletAmounts : OrderRepository_create_order(u, a)
    \/ \E j \in Jobs, o \in BackendOrders : cancel_order_task(j, o)
    \/ \E j \in Jobs, o \in BackendOrders : OrderService_cancel_order(j, o)
    \/ \E j \in Jobs, o \in BackendOrders : process_payment(j, o)
    \/ \E j \in Jobs : update_status(j)
    \/ \E j \in Jobs, o \in BackendOrders, recipient \in BOOLEAN :
           deliver_premium_task(j, o, recipient)
    \/ \E j \in Jobs, ok \in BOOLEAN : call_telegram_gift_premium(j, ok)
    \/ \E j \in Jobs : rollback(j)
    \/ \E o \in CallbackOrders, sig \in BOOLEAN : trc20_callback(o, sig)

SpecBackend == Init /\ [][NextBackend]_vars

\* the wallet: deposits, credits and debits of one balance that interleave,
\* while orders are paid
NextWallet ==
    \/ \E u \in Holders, a \in WalletAmounts : OrderRepository_create_order(u, a)
    \/ \E j \in Jobs, o \in BackendOrders : process_deposit(j, o)
    \/ \E j \in Jobs, o \in BackendOrders : process_payment(j, o)
    \/ \E j \in Jobs : update_status(j)
    \/ \E j \in Jobs, u \in Holders, a \in WalletAmounts : update_balance(j, u, a)
    \/ \E j \in Jobs, u \in Holders, a \in WalletAmounts : debit_balance(j, u, a)
    \/ \E j \in Jobs : get_by_user_id(j)
    \/ \E j \in Jobs : commit_balance(j)

SpecWallet == Init /\ [][NextWallet]_vars

\* ---------------------------------------------------------------- properties
Pending == {o \in OrderIds : orders[o].status = "PENDING"}

\* C1: at every instant no two orders with status PENDING have the same total
\* micro-amount
C1_UniquePendingAmount ==
    \A o1 \in Pending, o2 \in Pending :
        o1 # o2 => round_micro(TotalOf(orders[o1])) # round_micro(TotalOf(orders[o2]))

\* C2: at every instant a suffix is held by at most one PENDING order
C2_UniquePendingSuffix ==
    \A o1 \in Pending, o2 \in Pending :
        o1 # o2 => orders[o1].suffix # orders[o2].suffix

Winners == {t \in Tasks : outcome[t].state = "order"}

AllReturned == \A t \in Tasks : outcome[t].state \in {"order", "exhausted"}

MinOf(a, b) == IF a <= b THEN a ELSE b

ReleasesFor(t, s) ==
    \/ task[t].pc = "u_release" /\ task'[t].pc = "u_save" /\ task[t].suffix = s
    \/ task[t].pc = "idle" /\ task'[t].op = "cancel" /\ task'[t].suffix = s

\* C4: a release on behalf of an order frees a slot only if the slot is bound
\* for that order; a stale release never frees a slot bound anew for another
C4_ReleaseOnlyOwn ==
    [][\A t \in Tasks, s \in Suffixes :
          (ReleasesFor(t, s) /\ slots[s] # Free /\ slots'[s] = Free)
              => heldFor[s] = task'[t].order]_vars

\* C5: a terminal status (PAID, EXPIRED, CANCELLED) of a stored order is
\* never replaced by another status
C5_TerminalFinal ==
    [][\A o \in OrderIds :
          orders[o].status \in Terminal
              => orders'[o].status \in {orders[o].status, "NONE"}]_vars

\* C6: the write of the expiry sweep never turns a PAID order into EXPIRED,
\* even when the sweep read the order as PENDING before the payment
C6_SweepKeepsPaid ==
    [][\A t \in Tasks :
          (task[t].op = "sweep" /\ task[t].pc = "u_save" /\ task'[t].pc # "u_save")
              => ~(orders[task[t].order].status = "PAID"
                   /\ orders'[task[t].order].status = "EXPIRED")]_vars

\* C7: a status write is applied, and reported as a success, only while the
\* stored status is PENDING at the moment of the write, so that of the
\* attempts racing on one order exactly one is applied
C7_WriteOnlyOverPending ==
    [][\A t \in Tasks :
          (task[t].pc = "u_save" /\ task'[t].pc # "u_save")
              => orders[task[t].order].status = "PENDING"]_vars

C9_ValidPaymentPays ==
    [][(ret'.op = "callback" /\ ret'.sigOk /\ ret'.pre = "live")
          => /\ ret'.result = "ok"
             /\ \A t \in Tasks :
                    (task[t].op = "callback" /\ task'[t] # task[t])
                        => /\ orders'[task[t].cbOrder].status = "PAID"
                           /\ slots'[task[t].suffix] # OrderBinding(task[t].cbOrder)]_vars

\* C10: the replay of a callback for an order that is already PAID returns
\* success, and no step taken for it changes the order, the index or the pool
C10_ReplayIdempotent ==
    [][/\ (ret'.op = "callback" /\ ret'.sigOk /\ ret'.pre = "paid")
              => ret'.result = "ok"
       /\ \A t \in Tasks :
              (task[t].op = "callback" /\ task[t].pre = "paid" /\ task'[t] # task[t])
                  => UNCHANGED store]_vars

\* C11: a callback for an order that is already PAID, carrying another tx_hash
\* than the one that paid it, is answered as an anomaly, and no step taken
\* for it changes the order's status or the tx_hash that paid it
C11_OtherTxAnomaly ==
    [][/\ (ret'.op = "callback" /\ ret'.sigOk /\ ret'.pre = "paid_other_tx")
              => ret'.result = "anomaly"
       /\ \A t \in Tasks :
              (task[t].op = "callback" /\ task[t].pre = "paid_other_tx"
                  /\ task'[t] # task[t])
                  => UNCHANGED <<orders, paidTx,
                   quote,
                   backend, side>>]_vars

\* C12: a correctly signed callback whose amount differs from the total of the
\* PENDING order it names is rejected as order-not-found or amount-mismatch,
\* and the order, the index and the pool stay as they are
C12_WrongAmountTwoAnswers ==
    [][/\ (ret'.op = "callback" /\ ret'.sigOk /\ ret'.pre = "wrong_amount")
              => (ret'.result \in {"not_found", "amount_mismatch"} /\ UNCHANGED store)
       /\ \A t \in Tasks : task'[t].pre # "wrong_amount"]_vars

\* C12, with the third answer the checks can give: the amount is the total
\* of another stored order, and the callback is rejected as an id mismatch
C12_WrongAmountRejected ==
    [][/\ (ret'.op = "callback" /\ ret'.sigOk /\ ret'.pre = "wrong_amount")
              => (ret'.result \in {"not_found", "id_mismatch", "amount_mismatch"}
                  /\ UNCHANGED store)
       /\ \A t \in Tasks : task'[t].pre # "wrong_amount"]_vars

\* a callback naming a PENDING order that still holds its suffix, with the
\* amount of another order, has just been rejected as an id mismatch
C12_Witness ==
    /\ ret.op = "callback"
    /\ ret.sigOk
    /\ ret.pre = "wrong_amount"
    /\ ret.result = "id_mismatch"
    /\ \E o \in Pending : slots[orders[o].suffix] = OrderBinding(o)

Stored == {o \in OrderIds : orders[o].status # "NONE"}

\* C13: a callback whose amount leads to an order with another id than the
\* one it names is rejected as an id mismatch; no step is taken for it, and
\* neither order changes
C13_IdMismatchRejected ==
    [][/\ (ret'.op = "callback" /\ ret'.sigOk /\ ret'.hit = "other")
              => (ret'.result = "id_mismatch" /\ UNCHANGED store)
       /\ \A t \in Tasks : task'[t].hit # "other"]_vars

\* two orders are stored, and a callback naming one with the amount of the
\* other has just been rejected
C13_Witness ==
    /\ ret.op = "callback"
    /\ ret.sigOk
    /\ ret.hit = "other"
    /\ ret.result = "id_mismatch"
    /\ Cardinality(Stored) = 2

\* C14: a callback that arrives for a PENDING order after its expires_at is
\* rejected as late; no step taken for it makes the order PAID, and the only
\* write it makes turns an order that is PENDING at that moment into EXPIRED
C14_LateCallbackExpires ==
    [][/\ (ret'.op = "callback" /\ ret'.sigOk /\ ret'.pre = "late")
              => ret'.result = "late"
       /\ \A t \in Tasks :
              (task[t].op = "callback" /\ task[t].pre = "late" /\ task'[t] # task[t])
                  => LET o == task[t].order
                     IN /\ orders[o].status # "PAID" => orders'[o].status # "PAID"
                        /\ orders'[o] # orders[o]
                               => (orders[o].status = "PENDING"
                                   /\ orders'[o].status = "EXPIRED")]_vars

\* the sweep of task t ends its work on one order with this step
SweepHandled(t) ==
    /\ task[t].op = "sweep"
    /\ task[t].pc \in {"u_get", "u_save"}
    /\ task'[t].pc = "s_loop"

C16_LeaseEnds == \A s \in Suffixes : (slots[s] # Free) ~> (slots[s] = Free)

\* a creator died after it had bound a suffix: the slot is bound, nobody is
\* running and no order was stored
C16_Witness ==
    /\ \E s \in Suffixes : slots[s] # Free
    /\ \A t \in Tasks : task[t].pc = "idle"
    /\ Stored = {}

\* C17: create_order answers None exactly when it finds every slot bound, and
\* then no order record, no index entry and no slot binding is written
C17_ExhaustedChangesNothing ==
    [][/\ (ret'.op = "create" /\ ret'.result = "exhausted")
              => (FreeSlots = {} /\ UNCHANGED <<orders, amountIdx, slots, heldFor, nextId>>)
       /\ \A t \in Tasks :
              (task[t].pc \in {"idle", "c_retry"} /\ task'[t].pc = "c_release")
                  => FreeSlots # {}]_vars

\* a call has just returned None while every slot is bound
C17_Witness ==
    /\ ret.op = "create"
    /\ ret.result = "exhausted"
    /\ FreeSlots = {}

\* C18: the amounts calculate_total_amount gives for one base amount and two
\* different suffixes differ in micro-units, rounded or truncated
C18_DistinctAmounts ==
    (/\ quote.prev.path = "processor"
     /\ quote.last.path = "processor"
     /\ quote.prev.base = quote.last.base
     /\ quote.prev.suffix # quote.last.suffix)
        => /\ round_micro(quote.prev.total) # round_micro(quote.last.total)
           /\ amount_in_micro_usdt(quote.prev.total) # amount_in_micro_usdt(quote.last.total)

\* two amounts were quoted for base 1 and the neighbouring suffixes 1 and 2,
\* the first of which falls below its integer as a double
C18_Witness ==
    /\ quote.prev.path = "processor"
    /\ quote.last.path = "processor"
    /\ quote.prev.base = 1
    /\ quote.last.base = 1
    /\ quote.prev.suffix = 1
    /\ quote.last.suffix = 2

\* C19: on every path that creates an order the amount to pay is
\* base + suffix/1000, in micro-units base * 10^6 + suffix * 1000
C19_PayAmount ==
    quote.last.path # "none"
        => round_micro(quote.last.total)
               = quote.last.base * 1000000 + quote.last.suffix * 1000

\* C20: right after create_order has saved an order, find_order_by_amount
\* with the order's total amount returns that order
C20_SavedThenFound ==
    [][\A t \in Tasks :
          (task[t].pc = "c_save" /\ ret'.op = "create" /\ ret'.result = "order"
           /\ task'[t].pc = "idle")
              => LET id == amountIdx'[round_micro(TotalOf(orders'[task[t].order]))]
                 IN /\ id = task[t].order
                    /\ orders'[id].status # "NONE"]_vars

\* C21: a callback with a valid signature that names no stored order is
\* answered with 404, and the step changes nothing in the store
C21_UnknownOrder404 ==
    [][(reply'.op = "webhook" /\ reply'.sigOk /\ reply'.seen = "NONE")
          => /\ reply'.code = 404
             /\ UNCHANGED <<dbOrders, dbUsers, gifts, credited>>]_vars

\* the contract of a checked status change, step by step: the call is
\* refused only for an order that is missing or not in `expects`, and then
\* writes nothing; it goes on to its write only for an order read in
\* `expects`; and its write leaves `target` stored and answers success
ChangeContract(op, expects, target) ==
    /\ (reply'.op = op /\ reply'.result \in {"not_found", "refused"})
           => /\ dbOrders[reply'.order].status # expects
              /\ UNCHANGED dbOrders
    /\ \A j \in Jobs :
           (job[j].pc = "idle" /\ job'[j].op = op /\ job'[j].pc = "b_write")
               => dbOrders[job'[j].order].status = expects
    /\ \A j \in Jobs :
           (job[j].op = op /\ job[j].pc = "b_write" /\ job'[j] # job[j])
               => /\ dbOrders'[job[j].order].status = target
                  /\ reply'.op = op
                  /\ reply'.result = "success"

\* C22: a cancellation (cancel_order_task or OrderService.cancel_order)
\* succeeds exactly for a stored order with status PENDING, then stores
\* CANCELLED; otherwise it reports failure and leaves the status as it is
C22_CancelExactlyPending ==
    [][/\ ChangeContract("cancel_task", "PENDING", "CANCELLED")
       /\ ChangeContract("cancel_order", "PENDING", "CANCELLED")]_vars

\* C23: PremiumService.process_payment returns True and stores PAID exactly
\* for a stored order it reads as PENDING; for a missing order or one in
\* another status it returns False and writes no status
C23_PaymentExactlyPending ==
    [][ChangeContract("process_payment", "PENDING", "PAID")]_vars

\* process_payment has answered True for an order, which is stored as PAID
C23_Witness ==
    /\ reply.op = "process_payment"
    /\ reply.result = "success"
    /\ dbOrders[reply.order].status = "PAID"

C25_DeliveredOnlyPaidAndGifted ==
    [][/\ \A o \in BackendOrders :
              (dbOrders[o].status # "DELIVERED" /\ dbOrders'[o].status = "DELIVERED")
                  => \E j \in Jobs :
                        /\ job[j].op = "deliver" /\ job[j].order = o
                        /\ job[j].pc = "b_write" /\ job'[j].pc = "idle"
                        /\ job[j].seen = "PAID" /\ job[j].gifted
       /\ \A j \in Jobs :
              (job[j].pc = "idle" /\ job'[j].pc = "d_gift")
                  => dbOrders[job'[j].order].status = "PAID"
       /\ (reply'.op = "deliver" /\ reply'.seen \notin {"NONE", "PAID"})
              => /\ reply'.result = "refused"
                 /\ dbOrders[reply'.order].status = reply'.seen
                 /\ UNCHANGED <<dbOrders, gifts, job>>]_vars

\* a delivery task has answered success and the order is stored as DELIVERED
C25_Witness ==
    /\ reply.op = "deliver"
    /\ reply.result = "success"
    /\ dbOrders[reply.order].status = "DELIVERED"

\* C26: a delivery task whose gift call failed stores PARTIAL, not
\* DELIVERED; the rollback that follows changes no stored status, and the
\* task ends by raising TelegramAPIError
C26_GiftFailureLeavesPartial ==
    [][\A j \in Jobs :
          /\ (job[j].op = "deliver" /\ job[j].pc = "b_write" /\ ~job[j].gifted
               /\ job'[j] # job[j])
                 => /\ dbOrders'[job[j].order].status = "PARTIAL"
                    /\ job'[j].pc = "d_rollback"
          /\ (job[j].pc = "d_rollback" /\ job'[j] # job[j])
                 => /\ UNCHANGED dbOrders
                    /\ reply'.op = "deliver"
                    /\ reply'.result = "TelegramAPIError"]_vars

\* a delivery task has just raised TelegramAPIError, and its order is
\* stored as PARTIAL
C26_Witness ==
    /\ reply.op = "deliver"
    /\ reply.result = "TelegramAPIError"
    /\ dbOrders[reply.order].status = "PARTIAL"

C28_BalanceNeverNegative ==
    [][/\ \A u \in Holders : dbUsers'[u] = NoUser \/ dbUsers'[u] >= 0
       /\ \A j \in Jobs :
              (job[j].pc = "b_user" /\ job[j].op = "debit" /\ job'[j] # job[j]
               /\ dbUsers[job[j].user] # NoUser
               /\ dbUsers[job[j].user] < Micro(job[j].amount))
                  => /\ reply'.op = "debit"
                     /\ reply'.result = "insufficient"
       /\ (reply'.op = "debit" /\ reply'.result = "insufficient")
              => UNCHANGED dbUsers]_vars

\* a debit has just failed as insufficient against a balance that is positive
C28_Witness ==
    /\ reply.op = "debit"
    /\ reply.result = "insufficient"
    /\ \E u \in Holders : dbUsers[u] > 0

\* C29: in every state, for every order that is PENDING and not expired,
\* find_order_by_amount with the order's total amount returns that order
C29_PendingFoundByAmount ==
    \A o \in Pending :
        ~expired[o] => find_order_by_amount(TotalOf(orders[o])) = o

\* C30: in every state, a slot that is free is the suffix of no stored
\* order that is PENDING and not expired
C30_FreeSlotHasNoPending ==
    \A s \in Suffixes :
        slots[s] = Free => ~\E o \in Pending : orders[o].suffix = s /\ ~expired[o]

\* C31: every create_order call that has started returns, with an order or
\* with None for an exhausted pool; its retry does not go on forever
C31_CreateTerminates ==
    \A t \in Tasks :
        (outcome[t].state = "running") ~> (outcome[t].state \in {"order", "exhausted"})

\* C32: create_order returns an order only if the order record and the entry
\* of the amount index were both written; when the write fails no order is
\* returned and the suffix does not stay bound to the order that was not stored
C32_ReturnedOrderIsStored ==
    [][\A t \in Tasks :
           (task[t].pc = "c_save" /\ ret'.op = "create" /\ task'[t].pc = "idle")
               => LET id == task[t].order
                      rec == Order(task[t].base, task[t].suffix)
                      written == /\ orders'[id] = rec
                                 /\ amountIdx'[amount_in_micro_usdt(TotalOf(rec))] = id
                  IN /\ ret'.result = "order" => written
                     /\ ~written => /\ ret'.result # "order"
                                    /\ slots'[task[t].suffix] # OrderBinding(id)]_vars

\* C33: a step of a sweep run leaves every stored order that is not PENDING,
\* and every PENDING order whose window has not ended, as it was, and leaves
\* the slot bound for such an order bound
C33_SweepFrame ==
    [][\A t \in Tasks :
           (task[t].op = "sweep" /\ task'[t] # task[t])
               => \A o \in Stored :
                      (orders[o].status # "PENDING" \/ ~expired[o])
                          => /\ orders'[o] = orders[o]
                             /\ \A s \in Suffixes :
                                    slots[s] = OrderBinding(o) => slots'[s] = slots[s]]_vars

\* the orders a step takes from PENDING to EXPIRED
ExpiredByStep == {o \in OrderIds : orders[o].status = "PENDING" /\ orders'[o].status = "EXPIRED"}

\* C34: the count of a sweep run rises by one exactly in the steps in which the
\* run takes an order from PENDING to EXPIRED, and the run returns that count
C34_SweepCountsChanges ==
    [][\A t \in Tasks :
           (task[t].op = "sweep" /\ task'[t] # task[t])
               => IF task'[t].op = "sweep"
                  THEN task'[t].count = task[t].count + Cardinality(ExpiredByStep)
                  ELSE ret'.count = task[t].count /\ ExpiredByStep = {}]_vars

\* C35: update_order_status asked for the status the order already holds
\* changes nothing and answers success; asked for another status of an order
\* that is no longer PENDING it changes nothing and answers failure
C35_RepeatIsSuccess ==
    [][\A t \in Tasks :
           (/\ task[t].pc = "u_get"
            /\ task'[t] # task[t]
            /\ task[t].op \in {"callback", "cancel"}
            /\ task[t].target # "EXPIRED")
               => LET held == orders[task[t].order].status
                  IN /\ held = task[t].target
                            => (ret'.result = "ok" /\ UNCHANGED store)
                     /\ held \notin {"NONE", "PENDING", task[t].target}
                            => (ret'.result = "fail" /\ UNCHANGED store)]_vars

\* C36: a signature issued for one (order id, amount, transaction hash) triple
\* verifies for no other triple
C36_SignatureBindsTriple ==
    (signed.checked /\ signed.valid)
        => /\ signed.claimOrder = signed.order
           /\ signed.claimAmount = signed.amount
           /\ signed.claimTx = signed.tx

\* C37: two PENDING exchange orders opened for the same base amount never
\* carry the same payment amount
C37_ExchangeAmountsDiffer ==
    \A o1 \in TrxIds, o2 \in TrxIds :
        (/\ o1 # o2
         /\ trxOrders[o1].status = "PENDING"
         /\ trxOrders[o2].status = "PENDING"
         /\ trxOrders[o1].base = trxOrders[o2].base)
            => trxOrders[o1].usdt_amount # trxOrders[o2].usdt_amount

C39_CreatedCountsAsPending ==
    (/\ reply.op \in {"cancel_order", "process_deposit"}
     /\ reply.seen = "PENDING")
        => reply.result # "refused"

\* C40: WalletService.debit returns True exactly when the call reduced the
\* balance of the user; with nothing debited it returns False
C40_DebitTrueMeansReduced ==
    [][reply'.op = "debit"
           => (WalletService_debit(reply'.result)
                   <=> \E u \in Holders : dbUsers[u] # NoUser /\ dbUsers'[u] < dbUsers[u])]_vars

====
